---- MODULE Spec2Model ----
(***************************************************************************)
(* GPU process attribution of SystemMonitor                                *)
(* (backend/system_monitor/core/collectors): GPUCollector, ProcessHelper,  *)
(* DockerHelper, SystemMonitorCollector and the monitor loop of cli.py.    *)
(*                                                                         *)
(* Python values are modelled as follows.                                  *)
(*   None            NoneVal (-1) for integers, [none |-> TRUE, ...] for   *)
(*                   an Optional[List]                                     *)
(*   dict            a sequence of [key, val] pairs in insertion order     *)
(*                   (Python dicts iterate in insertion order and an       *)
(*                   assignment to an existing key keeps its position)     *)
(*   f-string tags   records of the parts the f-string is built from       *)
(***************************************************************************)
EXTENDS Integers, Sequences, FiniteSets, TLC

(***************************************************************************)
(* Bounds of the model.                                                    *)
(***************************************************************************)
MaxHostPid == 2      \* host processes have PIDs 1..MaxHostPid
MaxPid == 3          \* raw / container-relative PID numbers are 1..MaxPid
NumDev == 2          \* devices reported by nvmlDeviceGetCount
MaxRecs == 2         \* running-process records over all devices
MaxFaults == 1       \* failures met by one poll
MaxLoad == 2         \* driver records plus failures of one poll
UtilSample == 50     \* a utilization figure reported by the driver (percent)
MemUsedSample == 5   \* a used-memory figure of a device (MiB)
MemTotalSample == 8  \* a total-memory figure of a device (MiB)
BatchRows == 2       \* process rows of one insert_gpu_processes batch
MaxThreads == 3
MaxEntries == 3
MaxMemoryMb == 2
MaxLimit == 3      \* loop threads created by start_monitoring

(***************************************************************************)
(* Program constants.                                                      *)
(***************************************************************************)
MiB == 1024 * 1024
ReverseTolerance == 1
KeywordTolerance == 2
NoneVal == -1

HostPids == 1..MaxHostPid
PidNums == 1..MaxPid
Devs == 0..(NumDev - 1)

(***************************************************************************)
(* Python dict as a sequence of [key, val] pairs.                          *)
(***************************************************************************)
EmptyDict == << >>

DictHas(d, k) == \E i \in 1..Len(d) : d[i].key = k

DictGet(d, k) == d[CHOOSE i \in 1..Len(d) : d[i].key = k].val

DictSet(d, k, v) ==
    IF DictHas(d, k)
    THEN [i \in 1..Len(d) |-> IF d[i].key = k THEN [key |-> k, val |-> v] ELSE d[i]]
    ELSE Append(d, [key |-> k, val |-> v])

DictKeys(d) == [i \in 1..Len(d) |-> d[i].key]

DictValues(d) == [i \in 1..Len(d) |-> d[i].val]

KeySet(d) == {d[i].key : i \in 1..Len(d)}

SeqSet(s) == {s[i] : i \in 1..Len(s)}

Perms(S) == {s \in [1..Cardinality(S) -> S] : \A i, j \in 1..Cardinality(S) : i # j => s[i] # s[j]}

MinOf(S) == CHOOSE x \in S : \A y \in S : x <= y

Abs(x) == IF x < 0 THEN -x ELSE x

\* ascending order of a set of integers (psutil.process_iter yields by PID)
RECURSIVE Ascending(_)
Ascending(S) == IF S = {} THEN << >> ELSE <<MinOf(S)>> \o Ascending(S \ {MinOf(S)})

(***************************************************************************)
(* The accelerator as the driver reports it: at most MaxRecs running-      *)
(* process records, each in the compute or the graphics list of a device.  *)
(* A record is [pid, usedGpuMemory]; usedGpuMemory is bytes or NoneVal.    *)
(***************************************************************************)
Classes == {"compute", "graphics"}
Slots == Devs \X Classes
MemBytes == {NoneVal, 3 * MiB + 1}
Recs == [pid : PidNums, usedGpuMemory : MemBytes]

NvmlWorlds ==
    UNION {[S -> Recs] : S \in {T \in SUBSET Slots : Cardinality(T) <= MaxRecs}}

ComputeRunningProcesses(world, d) ==
    IF <<d, "compute">> \in DOMAIN world THEN <<world[<<d, "compute">>]>> ELSE << >>

GraphicsRunningProcesses(world, d) ==
    IF <<d, "graphics">> \in DOMAIN world THEN <<world[<<d, "graphics">>]>> ELSE << >>

VramUsedMb(usedGpuMemory) ==
    IF usedGpuMemory = NoneVal THEN 0 ELSE usedGpuMemory \div MiB

(***************************************************************************)
(* Per-process accounting statistics of one call.                          *)
(*   "disabled"     accounting mode is off on the device                   *)
(*   "mode_error"   nvmlDeviceGetAccountingMode raised NVMLError           *)
(*   "stats_error"  nvmlDeviceGetAccountingStats raised NVMLError          *)
(*   "not_running"  the statistics have isRunning = 0                      *)
(*   "running"      the statistics have isRunning = 1                      *)
(***************************************************************************)
AccOutcomes == {"disabled", "mode_error", "stats_error", "not_running", "running"}

AccountingEnabled(acc) == acc \notin {"disabled", "mode_error"}

GpuUtilizationIgnoringIsRunning(accounting_enabled, acc) ==
    IF accounting_enabled /\ acc \in {"running", "not_running"} THEN UtilSample ELSE 0

GpuUtilization(accounting_enabled, acc) ==
    IF accounting_enabled /\ acc = "running" THEN UtilSample ELSE 0

(***************************************************************************)
(* GPUCollector.get_pid_gpu_info                                           *)
(***************************************************************************)
InfoNone == [none |-> TRUE, found |-> FALSE, gpu_id |-> NoneVal,
             vram_used_mb |-> 0, gpu_utilization |-> 0]
InfoNotFound == [none |-> FALSE, found |-> FALSE, gpu_id |-> NoneVal,
                 vram_used_mb |-> 0, gpu_utilization |-> 0]

AllProcsOf(world, d) == ComputeRunningProcesses(world, d) \o GraphicsRunningProcesses(world, d)

GetPidGpuInfoAnyProcess(target_pid, initialized, world, acc) ==
    IF ~initialized THEN InfoNone
    ELSE LET devsWith == {d \in Devs : AllProcsOf(world, d) # << >>}
         IN  IF devsWith = {} THEN InfoNotFound
             ELSE LET d == MinOf(devsWith)
                  IN  [none |-> FALSE, found |-> TRUE, gpu_id |-> d,
                       vram_used_mb |-> VramUsedMb(AllProcsOf(world, d)[1].usedGpuMemory),
                       gpu_utilization |-> GpuUtilization(AccountingEnabled(acc), acc)]

GetPidGpuInfo(target_pid, initialized, world, acc) ==
    IF ~initialized THEN InfoNone
    ELSE LET devsWith == {d \in Devs : \E i \in 1..Len(AllProcsOf(world, d)) :
                                          AllProcsOf(world, d)[i].pid = target_pid}
         IN  IF devsWith = {} THEN InfoNotFound
             ELSE LET d == MinOf(devsWith)
                      i == MinOf({j \in 1..Len(AllProcsOf(world, d)) :
                                      AllProcsOf(world, d)[j].pid = target_pid})
                  IN  [none |-> FALSE, found |-> TRUE, gpu_id |-> d,
                       vram_used_mb |-> VramUsedMb(AllProcsOf(world, d)[i].usedGpuMemory),
                       gpu_utilization |-> GpuUtilization(AccountingEnabled(acc), acc)]

(***************************************************************************)
(* GPUCollector._resolve_pid.  The result carries, next to the host PID    *)
(* (0 for None), the strategies that were attempted in order and the       *)
(* number of per-PID accelerator queries made.                             *)
(***************************************************************************)
VerifiedCandidatesFoundOnly(keys, vram_used_mb, initialized, world, tolerance) ==
    {i \in 1..Len(keys) :
        LET verification == GetPidGpuInfo(keys[i], initialized, world, "disabled")
        IN  ~verification.none /\ verification.found}

VerifiedCandidates(keys, vram_used_mb, initialized, world, tolerance) ==
    {i \in 1..Len(keys) :
        LET verification == GetPidGpuInfo(keys[i], initialized, world, "disabled")
        IN  /\ ~verification.none
            /\ verification.found
            /\ Abs(verification.vram_used_mb - vram_used_mb) <= tolerance}

ResolvePidMapFirst(nvml_pid, pid_namespace_map, vram_used_mb, alive, h2c, initialized, world) ==
    IF DictHas(pid_namespace_map, nvml_pid)
    THEN [pid |-> DictGet(pid_namespace_map, nvml_pid), tried |-> <<"namespace">>, queries |-> 0]
    ELSE IF nvml_pid \in alive
    THEN [pid |-> nvml_pid, tried |-> <<"namespace", "direct">>, queries |-> 0]
    ELSE [pid |-> 0, tried |-> <<"namespace", "direct">>, queries |-> 0]

ResolvePid(nvml_pid, pid_namespace_map, vram_used_mb, alive, h2c, initialized, world) ==
    IF nvml_pid \in alive
    THEN [pid |-> nvml_pid, tried |-> <<"direct">>, queries |-> 0]
    ELSE IF DictHas(pid_namespace_map, nvml_pid)
    THEN [pid |-> DictGet(pid_namespace_map, nvml_pid),
          tried |-> <<"direct", "namespace">>, queries |-> 0]
    ELSE LET keys == DictKeys(h2c)
             hits == VerifiedCandidates(keys, vram_used_mb, initialized, world, ReverseTolerance)
         IN  IF hits # {}
             THEN [pid |-> keys[MinOf(hits)],
                   tried |-> <<"direct", "namespace", "reverse">>, queries |-> MinOf(hits)]
             ELSE [pid |-> 0,
                   tried |-> <<"direct", "namespace", "reverse">>, queries |-> Len(keys)]

(***************************************************************************)
(* ProcessHelper.build_pid_namespace_map over the processes in scan order. *)
(* ns[h] is the second entry of the NSpid line of host process h, or 0     *)
(* when the line has a single entry.                                       *)
(***************************************************************************)
RECURSIVE BuildPidNamespaceMap(_, _, _)
BuildPidNamespaceMap(order, ns, acc) ==
    IF order = << >> THEN acc
    ELSE LET host_pid == Head(order)
             next == IF ns[host_pid] # 0
                     THEN [container_to_host |-> DictSet(acc.container_to_host, ns[host_pid], host_pid),
                           host_to_container |-> DictSet(acc.host_to_container, host_pid, ns[host_pid])]
                     ELSE acc
         IN  BuildPidNamespaceMap(Tail(order), ns, next)

EmptyMaps == [container_to_host |-> EmptyDict, host_to_container |-> EmptyDict]

(***************************************************************************)
(* build_pid_namespace_map with the reads that fail.  status[h] is what    *)
(* opening and reading the status file of process h does; host_proc tells  *)
(* whether /host/proc exists (the scan of os.listdir) or not (the scan of  *)
(* psutil.process_iter).  The second scan does not catch a plain OSError   *)
(* per process: it reaches the outer handler and ends the scan.            *)
(***************************************************************************)
StatusReads == {"ok", "FileNotFoundError", "PermissionError", "OSError"}

CaughtPerProcess(host_proc) ==
    IF host_proc THEN {"FileNotFoundError", "PermissionError", "OSError"}
    ELSE {"FileNotFoundError", "PermissionError"}

RECURSIVE ScanPidNamespaceMap(_, _, _, _, _)
ScanPidNamespaceMap(host_proc, order, ns, status, acc) ==
    IF order = << >> THEN acc
    ELSE LET host_pid == Head(order)
         IN  IF status[host_pid] = "ok"
             THEN ScanPidNamespaceMap(host_proc, Tail(order), ns, status,
                      BuildPidNamespaceMap(<<host_pid>>, ns, acc))
             ELSE IF status[host_pid] \in CaughtPerProcess(host_proc)
             THEN ScanPidNamespaceMap(host_proc, Tail(order), ns, status, acc)
             ELSE acc

(***************************************************************************)
(* DockerHelper.get_container_process_map.  The runtime lists one          *)
(* container whose process table holds the given host PIDs.                *)
(***************************************************************************)
ContainerInfo == [name |-> "web", image |-> "web:latest"]

RECURSIVE ContainerMapOf(_, _)
ContainerMapOf(pids, acc) ==
    IF pids = << >> THEN acc
    ELSE ContainerMapOf(Tail(pids), DictSet(acc, Head(pids), ContainerInfo))

GetContainerProcessMapIgnoringFailure(client, reachable, pids) ==
    IF ~client THEN EmptyDict ELSE ContainerMapOf(pids, EmptyDict)

GetContainerProcessMap(client, reachable, pids) ==
    IF ~client THEN EmptyDict
    ELSE IF ~reachable THEN EmptyDict
    ELSE ContainerMapOf(pids, EmptyDict)

ContainerName(container_map, pid) ==
    IF DictHas(container_map, pid) THEN DictGet(container_map, pid).name ELSE "Host"

ContainerSource(container_map, pid) ==
    IF DictHas(container_map, pid)
    THEN <<DictGet(container_map, pid).name, DictGet(container_map, pid).image>>
    ELSE <<"host-zh">>

(***************************************************************************)
(* Entries of the result map and their type tags.  A tag is the record of  *)
(* the parts its f-string is built from; name, command, cpu_percent,       *)
(* ram_mb and start_time are read through from psutil and carry no logic.  *)
(***************************************************************************)
NvmlTypeFirstDevice(gpu_id, gpu_utilization, vram_used_mb) ==
    [label |-> "GPU", gpu_id |-> 0, named |-> TRUE,
     util |-> IF gpu_utilization > 0 THEN gpu_utilization ELSE NoneVal,
     vram |-> IF vram_used_mb > 0 THEN vram_used_mb ELSE NoneVal,
     in_use |-> (gpu_utilization = 0 /\ vram_used_mb = 0)]

NvmlType(gpu_id, gpu_utilization, vram_used_mb) ==
    [label |-> "GPU", gpu_id |-> gpu_id, named |-> TRUE,
     util |-> IF gpu_utilization > 0 THEN gpu_utilization ELSE NoneVal,
     vram |-> IF vram_used_mb > 0 THEN vram_used_mb ELSE NoneVal,
     in_use |-> (gpu_utilization = 0 /\ vram_used_mb = 0)]

KeywordNvmlType(gpu_id, gpu_utilization, gpu_memory_mb) ==
    [label |-> "GPU", gpu_id |-> gpu_id, named |-> FALSE,
     util |-> IF gpu_utilization > 0 THEN gpu_utilization ELSE NoneVal,
     vram |-> IF gpu_memory_mb > 0 THEN gpu_memory_mb ELSE NoneVal,
     in_use |-> FALSE]

SmiType(proc_type) ==
    [label |-> IF proc_type = "G" THEN "NVIDIA Graphics" ELSE "NVIDIA Compute",
     gpu_id |-> NoneVal, named |-> FALSE, util |-> NoneVal, vram |-> NoneVal, in_use |-> FALSE]

PotentialType ==
    [label |-> "Potential GPU (Keyword)",
     gpu_id |-> NoneVal, named |-> FALSE, util |-> NoneVal, vram |-> NoneVal, in_use |-> FALSE]

Entry(pid, gpu_memory_mb, gpu_utilization, type, container_map) ==
    [pid |-> pid, gpu_memory_mb |-> gpu_memory_mb, gpu_utilization |-> gpu_utilization,
     type |-> type, container |-> ContainerName(container_map, pid),
     container_source |-> ContainerSource(container_map, pid)]

(***************************************************************************)
(* The process table of the nvidia-smi text output.  A row is the list of  *)
(* the whitespace-separated parts of one table line:                       *)
(*   GPU index, GI, CI, PID, type, process name, memory                    *)
(* A part is a number (isdigit), a word, or a figure ending in MiB.        *)
(***************************************************************************)
Num(n) == [k |-> "num", n |-> n, w |-> ""]
Word(w) == [k |-> "word", n |-> NoneVal, w |-> w]
Mib(n) == [k |-> "mib", n |-> n, w |-> ""]

SmiRow(d, class, rec) ==
    << Num(d), Word("N/A"), Word("N/A"), Num(rec.pid),
       Word(IF class = "graphics" THEN "G" ELSE "C"), Word("python3"),
       IF rec.usedGpuMemory = NoneVal THEN Word("N/A") ELSE Mib(VramUsedMb(rec.usedGpuMemory)) >>

RECURSIVE SmiTable(_, _)
SmiTable(world, d) ==
    IF d >= NumDev THEN << >>
    ELSE (IF <<d, "compute">> \in DOMAIN world
          THEN <<SmiRow(d, "compute", world[<<d, "compute">>])>> ELSE << >>)
         \o (IF <<d, "graphics">> \in DOMAIN world
             THEN <<SmiRow(d, "graphics", world[<<d, "graphics">>])>> ELSE << >>)
         \o SmiTable(world, d + 1)

\* the loop `for part in parts` of _collect_gpu_processes_nvidia_smi
RECURSIVE ParseParts(_, _)
ParseParts(parts, st) ==
    IF parts = << >> THEN st
    ELSE LET part == Head(parts)
             next == IF part.k = "num" /\ st.pid = NoneVal
                     THEN [st EXCEPT !.pid = part.n]
                     ELSE IF part.k = "word" /\ part.w \in {"C", "G", "C+G"} /\ st.proc_type = "None"
                     THEN [st EXCEPT !.proc_type = part.w]
                     ELSE IF part.k = "mib" /\ st.memory_usage = NoneVal
                     THEN [st EXCEPT !.memory_usage = IF part.n = NoneVal THEN 0 ELSE part.n]
                     ELSE st
         IN  ParseParts(Tail(parts), next)

ParseRow(parts) ==
    LET st == ParseParts(parts, [pid |-> NoneVal, proc_type |-> "None", memory_usage |-> NoneVal])
    IN  [pid |-> st.pid,
         proc_type |-> IF st.proc_type = "None" THEN "Unknown" ELSE st.proc_type,
         gpu_memory_mb |-> IF st.memory_usage = NoneVal THEN 0 ELSE st.memory_usage]

(***************************************************************************)
(* State.                                                                  *)
(***************************************************************************)
VARIABLES
    gpu_available,        \* GPUCollector.gpu_available (nvidia-smi answered at start-up)
    nvml_initialized,     \* GPUCollector.nvml_initialized
    docker_client,        \* DockerHelper.docker_client is not None
    hostPids,             \* processes alive on the host
    nspid,                \* second NSpid entry of each host process (0: none)
    nvmlProcs,            \* running-process records of the driver
    pc,                   \* position of get_gpu_processes
    processes,            \* the result map of the poll
    container_map,        \* local of get_gpu_processes
    pid_namespace_map,    \* local of get_gpu_processes (container PID -> host PID)
    host_to_container,    \* ProcessHelper.host_to_container
    gpu_id,               \* device index of the NVML loop
    all_procs,            \* records of the current device not yet processed
    accounting_enabled,   \* accounting mode of the current device
    smi_rows,             \* table rows not yet processed
    matched_procs,        \* keyword matches not yet processed
    result,               \* value returned by get_gpu_processes
    aliveAtStart,         \* history: processes alive when the poll began
    last_resolve,         \* history: outcome of the latest _resolve_pid call
    after_nvml,           \* history: result map when the NVML path ended
    smi_run,              \* history: how the poll's nvidia-smi invocation ended
    before_kw,            \* history: result map when the keyword supplement began
    faults,               \* failures met so far by the poll
    docker_up,            \* the container runtime answers during this poll
    mpc,                  \* position of the iteration of _monitor_loop
    gpu_data,             \* all_data['gpu'] of collect_all
    data,                 \* simple_data of collect_simple, then the record stored
    gpu_processes,        \* how get_top_gpu_processes(limit=5) ended
    gpu_stats,            \* value of the loop's own get_gpu_stats call
    stored,               \* what the iteration handed to the database
    scan_input,           \* /proc as one build_pid_namespace_map call finds it
    scan_output,          \* what that call returned, and host_to_container before it
    running,              \* SystemMonitor.running
    monitor_thread,       \* SystemMonitor.monitor_thread (0: None), an index of threads
    threads,              \* position of every loop thread created so far
    caller,               \* position of the thread that calls start / stop
    top_input,            \* what one get_top_gpu_processes call is given and finds
    top_output            \* what that call returned

pollVars == <<hostPids, nspid, nvmlProcs, pc, processes, container_map, pid_namespace_map,
              host_to_container, gpu_id, all_procs, accounting_enabled, smi_rows,
              matched_procs, result, aliveAtStart, last_resolve, after_nvml, smi_run,
              before_kw, faults, docker_up>>

startVars == <<gpu_available, nvml_initialized, docker_client>>

statsVars == <<mpc, gpu_data, data, gpu_processes, gpu_stats, stored>>

scanVars == <<scan_input, scan_output>>

threadVars == <<running, monitor_thread, threads, caller>>

topVars == <<top_input, top_output>>

auxVars == <<scanVars, threadVars, topVars>>

vars == <<startVars, pollVars, statsVars, auxVars>>

ResultNone == [none |-> TRUE, list |-> << >>]
ResultList(l) == [none |-> FALSE, list |-> l]

\* simple_data before collect_simple has run, and an iteration that stored nothing
NoData == [present |-> FALSE, gpu_usage |-> NoneVal, vram_used_mb |-> NoneVal,
           vram_total_mb |-> NoneVal]
NothingStored == [metrics |-> NoData, gpu_metrics |-> << >>, gpu_processes |-> 0]

\* no build_pid_namespace_map call under observation
NoScanInput == [host_proc |-> FALSE, alive |-> {}, ns |-> << >>, status |-> << >>]
NotScanned == [ran |-> FALSE, maps |-> EmptyMaps, before |-> EmptyDict]

\* no get_top_gpu_processes call under observation
NoTopInput == [poll |-> "None", list |-> << >>, limit |-> 0]
NotCalled == [ran |-> FALSE, ended |-> "None", list |-> << >>]
TopIdle ==
    /\ top_input = NoTopInput
    /\ top_output = NotCalled

\* a SystemMonitor after __init__: not running, no loop thread
ThreadsIdle ==
    /\ running = FALSE
    /\ monitor_thread = 0
    /\ threads = << >>
    /\ caller = "idle"

NoResolve == [raw |-> 0, direct |-> FALSE, pid |-> 0, tried |-> << >>, queries |-> 0,
              vram_used_mb |-> 0, gpu_id |-> 0, accounting_enabled |-> FALSE,
              acc |-> "not_asked", inserted |-> FALSE]

\* psutil.Process(pid) and its attribute reads: the process answers, has exited
\* (NoSuchProcess), or may not be inspected (AccessDenied)
ReadOutcomes == {"ok", "NoSuchProcess", "AccessDenied"}

\* a process may exit at any moment; the poll notices when it next looks at it
Leavers(touched) == {0} \cup (touched \cap hostPids)

\* the failures one poll meets (a driver call that raises, a process that exits
\* or may not be inspected) are counted up to MaxFaults, and together with the
\* driver's records up to MaxLoad
Cost(failed) == IF failed THEN 1 ELSE 0
Within(cost) ==
    /\ faults + cost <= MaxFaults
    /\ cost > 0 => Cardinality(DOMAIN nvmlProcs) + faults + cost <= MaxLoad
Answers(asked) == IF asked THEN BOOLEAN ELSE {TRUE}

PollIdle ==
    /\ hostPids = {}
    /\ nspid = << >>
    /\ nvmlProcs = << >>
    /\ pc = "idle"
    /\ processes = EmptyDict
    /\ container_map = EmptyDict
    /\ pid_namespace_map = EmptyDict
    /\ host_to_container = EmptyDict
    /\ gpu_id = 0
    /\ all_procs = << >>
    /\ accounting_enabled = FALSE
    /\ smi_rows = << >>
    /\ matched_procs = << >>
    /\ result = ResultNone
    /\ aliveAtStart = {}
    /\ last_resolve = NoResolve
    /\ after_nvml = EmptyDict
    /\ smi_run = "not_run"
    /\ before_kw = EmptyDict
    /\ faults = 0
    /\ docker_up = FALSE

Init ==
    /\ gpu_available \in BOOLEAN
    /\ nvml_initialized \in BOOLEAN
    /\ docker_client = FALSE
    /\ PollIdle
    /\ mpc = "off"
    /\ gpu_data = ResultNone
    /\ data = NoData
    /\ gpu_processes = "None"
    /\ gpu_stats = ResultNone
    /\ stored = NothingStored
    /\ scan_input = NoScanInput
    /\ scan_output = NotScanned
    /\ ThreadsIdle
    /\ TopIdle

(***************************************************************************)
(* get_gpu_processes, first part: the start-up gate, the container index   *)
(* and the namespace map.  The processes on the host, their NSpid records, *)
(* the driver's process records and the answer of the container runtime    *)
(* are the inputs of the poll.  /proc is listed in ascending PID order.    *)
(***************************************************************************)
NsRecords(alive) == {ns \in [alive -> {0} \cup PidNums] : \A h \in alive : ns[h] # h}

GetGpuProcesses ==
    /\ pc = "idle"
    /\ UNCHANGED startVars
    /\ \E alive \in SUBSET HostPids :
       \E ns \in NsRecords(alive) :
       \E world \in NvmlWorlds :
       \E reachable \in BOOLEAN :
          /\ hostPids' = alive
          /\ docker_up' = reachable
          /\ nspid' = ns
          /\ nvmlProcs' = world
          /\ aliveAtStart' = alive
          /\ IF ~gpu_available
             THEN /\ result' = ResultNone
                  /\ pc' = "done"
                  /\ UNCHANGED <<processes, container_map, pid_namespace_map,
                                 host_to_container>>
             ELSE LET maps == BuildPidNamespaceMap(Ascending(alive), ns, EmptyMaps)
                      namespaced == Ascending({h \in alive : ns[h] # 0})
                  IN  /\ processes' = EmptyDict
                      /\ container_map' = GetContainerProcessMap(docker_client, reachable,
                                                                 namespaced)
                      /\ pid_namespace_map' = maps.container_to_host
                      /\ host_to_container' = maps.host_to_container
                      /\ pc' = IF nvml_initialized THEN "nvml_dev" ELSE "smi"
                      /\ UNCHANGED result
    /\ UNCHANGED <<gpu_id, all_procs, accounting_enabled, smi_rows, matched_procs,
                   last_resolve, after_nvml, smi_run, before_kw, faults>>
    /\ UNCHANGED <<statsVars, auxVars>>

AfterNvmlAlways(procs) == "smi"

\* `if not self.nvml_initialized or not processes` after the NVML path
AfterNvml(procs) == IF ~nvml_initialized \/ procs = EmptyDict THEN "smi" ELSE "supplement"

(***************************************************************************)
(* _collect_gpu_processes_nvml: head of the loop over the devices.  A      *)
(* failing nvmlDeviceGetCount or nvmlDeviceGetHandleByIndex ends the path  *)
(* (outer except); a failing enumeration leaves its list empty.            *)
(***************************************************************************)
NvmlDevice ==
    /\ pc = "nvml_dev"
    /\ \E handleOk \in Answers(gpu_id < NumDev) :
       \E computeOk \in Answers(gpu_id < NumDev /\ ComputeRunningProcesses(nvmlProcs, gpu_id) # << >>) :
       \E graphicsOk \in Answers(gpu_id < NumDev /\ GraphicsRunningProcesses(nvmlProcs, gpu_id) # << >>) :
       \E accMode \in {"enabled", "disabled", "mode_error"} :
          /\ Within(Cost(~handleOk) + Cost(~computeOk) + Cost(~graphicsOk))
          /\ faults' = faults + Cost(~handleOk) + Cost(~computeOk) + Cost(~graphicsOk)
          /\ IF gpu_id >= NumDev \/ ~handleOk
             THEN /\ pc' = AfterNvml(processes)
                  /\ after_nvml' = processes
                  /\ gpu_id' = 0
                  /\ UNCHANGED <<all_procs, accounting_enabled>>
             ELSE LET procs == (IF computeOk THEN ComputeRunningProcesses(nvmlProcs, gpu_id) ELSE << >>)
                               \o (IF graphicsOk THEN GraphicsRunningProcesses(nvmlProcs, gpu_id) ELSE << >>)
                  IN  IF procs = << >>
                      THEN /\ gpu_id' = gpu_id + 1
                           /\ UNCHANGED <<pc, after_nvml, all_procs, accounting_enabled>>
                      ELSE /\ all_procs' = procs
                           /\ accounting_enabled' = (accMode = "enabled")
                           /\ pc' = "nvml_proc"
                           /\ UNCHANGED <<gpu_id, after_nvml>>
    /\ UNCHANGED <<startVars, docker_up, hostPids, nspid, nvmlProcs, processes, container_map,
                   pid_namespace_map, host_to_container, smi_rows, matched_procs, result,
                   aliveAtStart, last_resolve, smi_run, before_kw>>
    /\ UNCHANGED <<statsVars, auxVars>>

(***************************************************************************)
(* _collect_gpu_processes_nvml: one record of the current device.          *)
(***************************************************************************)
NvmlInsertKeepFirst(procs, target_pid, entry) ==
    IF DictHas(procs, target_pid) THEN procs ELSE DictSet(procs, target_pid, entry)

NvmlInsertAppend(procs, target_pid, entry) == Append(procs, [key |-> target_pid, val |-> entry])

\* processes[target_pid] = {...}
NvmlInsert(procs, target_pid, entry) == DictSet(procs, target_pid, entry)

NvmlExistsUnchecked(target_pid, alive) == target_pid # 0

\* `if not target_pid: continue` and `if psutil.pid_exists(target_pid)`
NvmlExists(target_pid, alive) == target_pid # 0 /\ target_pid \in alive

\* nvmlDeviceGetAccountingStats is called only with accounting enabled and a
\* resolved PID
StatsAnswers(enabled, target_pid) ==
    IF enabled /\ target_pid # 0 THEN {"stats_error", "not_running", "running"}
    ELSE {"not_asked"}

NvmlProc ==
    /\ pc = "nvml_proc"
    /\ LET proc == Head(all_procs)
           nvml_pid == proc.pid
           vram_used_mb == VramUsedMb(proc.usedGpuMemory)
           mapped == IF DictHas(pid_namespace_map, nvml_pid)
                     THEN {DictGet(pid_namespace_map, nvml_pid)} ELSE {}
       IN  \E gone \in Leavers({nvml_pid} \cup mapped) :
           \E acc \in {"stats_error", "not_running", "running", "not_asked"},
              read \in ReadOutcomes :
              LET alive == hostPids \ {gone}
                  r == ResolvePid(nvml_pid, pid_namespace_map, vram_used_mb, alive,
                                  host_to_container, nvml_initialized, nvmlProcs)
                  target_pid == r.pid
                  gpu_utilization == GpuUtilization(accounting_enabled, acc)
                  exists == NvmlExists(target_pid, alive)
                  rest == Tail(all_procs)
              IN  /\ Within(Cost(gone # 0) + Cost(read # "ok"))
                  /\ acc \in StatsAnswers(accounting_enabled, target_pid)
                  /\ read # "ok" => exists
                  /\ faults' = faults + Cost(gone # 0) + Cost(read # "ok")
                  /\ last_resolve' = [raw |-> nvml_pid, direct |-> nvml_pid \in alive,
                                      pid |-> r.pid, tried |-> r.tried, queries |-> r.queries,
                                      vram_used_mb |-> vram_used_mb, gpu_id |-> gpu_id,
                                      accounting_enabled |-> accounting_enabled,
                                      acc |-> acc, inserted |-> (exists /\ read = "ok")]
                  /\ processes' = IF exists /\ read = "ok"
                                  THEN NvmlInsert(processes, target_pid,
                                           Entry(target_pid, vram_used_mb, gpu_utilization,
                                                 NvmlType(gpu_id, gpu_utilization, vram_used_mb),
                                                 container_map))
                                  ELSE processes
                  /\ hostPids' = IF exists /\ read = "NoSuchProcess"
                                 THEN alive \ {target_pid} ELSE alive
                  /\ all_procs' = rest
                  /\ IF rest = << >>
                     THEN /\ pc' = "nvml_dev"
                          /\ gpu_id' = gpu_id + 1
                          /\ accounting_enabled' = FALSE
                     ELSE UNCHANGED <<pc, gpu_id, accounting_enabled>>
    /\ UNCHANGED <<startVars, docker_up, nspid, nvmlProcs, container_map, pid_namespace_map,
                   host_to_container, smi_rows, matched_procs, result, aliveAtStart,
                   after_nvml, smi_run, before_kw>>
    /\ UNCHANGED <<statsVars, auxVars>>

(***************************************************************************)
(* _collect_gpu_processes_nvidia_smi: the invocation of the CLI.  The      *)
(* table shows the driver's records; a non-zero exit, a timeout or a       *)
(* missing binary give no rows.                                            *)
(***************************************************************************)
CliOutcomes == {"ok", "nonzero", "timeout", "missing"}

Smi ==
    /\ pc = "smi"
    /\ \E cli \in CliOutcomes :
          LET rows == IF cli = "ok" THEN SmiTable(nvmlProcs, 0) ELSE << >>
          IN  /\ smi_rows' = rows
              /\ smi_run' = cli
              /\ pc' = IF rows = << >> THEN "supplement" ELSE "smi_row"
    /\ UNCHANGED <<startVars, docker_up, hostPids, nspid, nvmlProcs, processes, container_map,
                   pid_namespace_map, host_to_container, gpu_id, all_procs,
                   accounting_enabled, matched_procs, result, aliveAtStart, last_resolve,
                   after_nvml, before_kw, faults>>
    /\ UNCHANGED <<statsVars, auxVars>>

(***************************************************************************)
(* _collect_gpu_processes_nvidia_smi: one row of the process table.        *)
(***************************************************************************)
SmiInsert(procs, pid, entry) == IF DictHas(procs, pid) THEN procs ELSE DictSet(procs, pid, entry)

SmiRowStep ==
    /\ pc = "smi_row"
    /\ LET parts == Head(smi_rows)
           row == ParseRow(parts)
           pid == row.pid
       IN  \E gone \in Leavers({pid}) :
           \E read \in ReadOutcomes :
              LET alive == hostPids \ {gone}
                  taken == Len(parts) >= 5 /\ pid # NoneVal /\ pid \in alive
                           /\ ~DictHas(processes, pid)
                  rest == Tail(smi_rows)
              IN  /\ Within(Cost(gone # 0) + Cost(read # "ok"))
                  /\ read # "ok" => taken
                  /\ faults' = faults + Cost(gone # 0) + Cost(read # "ok")
                  /\ processes' = IF taken /\ read = "ok"
                                  THEN SmiInsert(processes, pid,
                                           Entry(pid, row.gpu_memory_mb, 0,
                                                 SmiType(row.proc_type), container_map))
                                  ELSE processes
                  /\ hostPids' = IF taken /\ read = "NoSuchProcess"
                                 THEN alive \ {pid} ELSE alive
                  /\ smi_rows' = rest
                  /\ pc' = IF rest = << >> THEN "supplement" ELSE "smi_row"
    /\ UNCHANGED <<startVars, docker_up, nspid, nvmlProcs, container_map, pid_namespace_map,
                   host_to_container, gpu_id, all_procs, accounting_enabled, matched_procs,
                   result, aliveAtStart, last_resolve, after_nvml, smi_run, before_kw>>
    /\ UNCHANGED <<statsVars, auxVars>>

(***************************************************************************)
(* _supplement_with_keyword_search over the matched processes.  read[p]    *)
(* is what psutil answers for process p, acc[p] the accounting answer of   *)
(* its accelerator query.  AccessDenied is not caught and leaves the loop. *)
(***************************************************************************)
KeywordInfo(pid, acc) ==
    LET first == GetPidGpuInfo(pid, nvml_initialized, nvmlProcs, acc)
        mapped == {i \in 1..Len(pid_namespace_map) : pid_namespace_map[i].val = pid}
    IN  IF (first.none \/ ~first.found) /\ mapped # {}
        THEN GetPidGpuInfo(pid_namespace_map[MinOf(mapped)].key, nvml_initialized, nvmlProcs, acc)
        ELSE first

KeywordEntry(pid, nvml_info, cmap) ==
    IF ~nvml_info.none /\ nvml_info.found
    THEN Entry(pid, nvml_info.vram_used_mb, nvml_info.gpu_utilization,
               KeywordNvmlType(nvml_info.gpu_id, nvml_info.gpu_utilization, nvml_info.vram_used_mb),
               cmap)
    ELSE Entry(pid, 0, 0, PotentialType, cmap)

SupplementInsert(procs, pid, entry) ==
    IF DictHas(procs, pid) THEN procs ELSE DictSet(procs, pid, entry)

RECURSIVE SupplementOverwriting(_, _, _, _)
SupplementOverwriting(procs, matched, read, acc) ==
    IF matched = << >> THEN [processes |-> procs, raised |-> FALSE]
    ELSE SupplementOverwriting(
             DictSet(procs, Head(matched),
                 KeywordEntry(Head(matched), KeywordInfo(Head(matched), acc[Head(matched)]),
                              container_map)),
             Tail(matched), read, acc)

RECURSIVE SupplementWithKeywordSearch(_, _, _, _)
SupplementWithKeywordSearch(procs, matched, read, acc) ==
    IF matched = << >> THEN [processes |-> procs, raised |-> FALSE]
    ELSE LET pid == Head(matched)
         IN  IF DictHas(procs, pid)
             THEN SupplementWithKeywordSearch(procs, Tail(matched), read, acc)
             ELSE IF read[pid] = "NoSuchProcess"
             THEN SupplementWithKeywordSearch(procs, Tail(matched), read, acc)
             ELSE IF read[pid] = "AccessDenied"
             THEN [processes |-> procs, raised |-> TRUE]
             ELSE SupplementWithKeywordSearch(
                      SupplementInsert(procs, pid,
                          KeywordEntry(pid, KeywordInfo(pid, acc[pid]), container_map)),
                      Tail(matched), read, acc)

(***************************************************************************)
(* get_gpu_processes, last part: the keyword supplement and the return.    *)
(* ProcessHelper.search_gpu_processes_by_keywords yields the processes     *)
(* whose name or command line holds a keyword (or "python"), in PID order. *)
(***************************************************************************)
ReturnValue(procs) ==
    IF procs = EmptyDict THEN ResultNone ELSE ResultList(DictValues(procs))

Supplement ==
    /\ pc = "supplement"
    /\ \E kw \in SUBSET hostPids :
       \E read \in [kw -> ReadOutcomes], acc \in [kw -> {"disabled", "running"}] :
          LET failed == {p \in kw : read[p] # "ok"}
              r == SupplementWithKeywordSearch(processes, Ascending(kw), read, acc)
          IN  /\ Within(Cardinality(failed))
              /\ \A p \in failed : ~DictHas(processes, p)
              /\ faults' = faults + Cardinality(failed)
              /\ matched_procs' = Ascending(kw)
              /\ before_kw' = processes
              /\ processes' = r.processes
              /\ hostPids' = hostPids \ {p \in kw : read[p] = "NoSuchProcess"}
              /\ IF r.raised
                 THEN /\ pc' = "raised"
                      /\ UNCHANGED result
                 ELSE /\ pc' = "done"
                      /\ result' = ReturnValue(r.processes)
    /\ UNCHANGED <<startVars, docker_up, nspid, nvmlProcs, container_map, pid_namespace_map,
                   host_to_container, gpu_id, all_procs, accounting_enabled, smi_rows,
                   aliveAtStart, last_resolve, after_nvml, smi_run>>
    /\ UNCHANGED <<statsVars, auxVars>>

(***************************************************************************)
(* The caller has taken the result (or the exception); the locals of the   *)
(* call are gone, the attributes of the collector stay.                    *)
(***************************************************************************)
NextPoll ==
    /\ pc \in {"done", "raised"}
    /\ pc' = "idle"
    /\ hostPids' = {}
    /\ nspid' = << >>
    /\ nvmlProcs' = << >>
    /\ processes' = EmptyDict
    /\ container_map' = EmptyDict
    /\ pid_namespace_map' = EmptyDict
    /\ gpu_id' = 0
    /\ all_procs' = << >>
    /\ accounting_enabled' = FALSE
    /\ smi_rows' = << >>
    /\ matched_procs' = << >>
    /\ result' = ResultNone
    /\ aliveAtStart' = {}
    /\ last_resolve' = NoResolve
    /\ after_nvml' = EmptyDict
    /\ smi_run' = "not_run"
    /\ before_kw' = EmptyDict
    /\ faults' = 0
    /\ docker_up' = FALSE
    /\ UNCHANGED <<startVars, host_to_container>>
    /\ UNCHANGED <<statsVars, auxVars>>

Next ==
    \/ GetGpuProcesses
    \/ NvmlDevice
    \/ NvmlProc
    \/ Smi
    \/ SmiRowStep
    \/ Supplement
    \/ NextPoll

Spec == Init /\ [][Next]_vars

\* a collector whose DockerHelper got a client at construction
InitDocker ==
    /\ gpu_available \in BOOLEAN
    /\ nvml_initialized \in BOOLEAN
    /\ docker_client = TRUE
    /\ PollIdle
    /\ mpc = "off"
    /\ gpu_data = ResultNone
    /\ data = NoData
    /\ gpu_processes = "None"
    /\ gpu_stats = ResultNone
    /\ stored = NothingStored
    /\ scan_input = NoScanInput
    /\ scan_output = NotScanned
    /\ ThreadsIdle
    /\ TopIdle

SpecDocker == InitDocker /\ [][Next]_vars

(***************************************************************************)
(* GPUCollector.get_gpu_stats.  A device snapshot keeps gpu_id, gpu_usage  *)
(* and the memory fields; vram_used_mb = NoneVal stands for a snapshot     *)
(* without memory keys.  The other keys are read through without logic.    *)
(***************************************************************************)
Snapshot(i, usage, used_mb, total_mb) ==
    [gpu_id |-> i, gpu_usage |-> usage,
     vram_used_mb |-> used_mb, vram_total_mb |-> total_mb]

\* what the driver answers for one device: utilization rates and memory info,
\* each of which may raise
NvmlUtils == {NoneVal, UtilSample}
NvmlMems == {[ok |-> FALSE, used |-> 0, total |-> 0],
             [ok |-> TRUE, used |-> 0, total |-> MemTotalSample * MiB],
             [ok |-> TRUE, used |-> MemUsedSample * MiB + 1, total |-> MemTotalSample * MiB]}
NvmlDeviceInfos == [util : NvmlUtils, mem : NvmlMems]

NvmlSnapshot(i, info) ==
    Snapshot(i, IF info.util = NoneVal THEN 0 ELSE info.util,
             IF info.mem.ok THEN info.mem.used \div MiB ELSE NoneVal,
             IF info.mem.ok THEN info.mem.total \div MiB ELSE NoneVal)

\* the rows of `nvidia-smi --query-gpu=... --format=csv,noheader,nounits`:
\* utilization, memory.used, memory.total, temperature, name
NotAvailable == Word("[N/A]")
CsvRows ==
    {<<util, used, total, Num(60), Word("GPU")>> :
        util \in {Num(UtilSample), NotAvailable},
        used \in {Num(MemUsedSample), NotAvailable},
        total \in {Num(MemTotalSample), NotAvailable}}
    \cup {<<Num(UtilSample), Num(MemUsedSample)>>}

CsvOutputs == UNION {[1..n -> CsvRows] : n \in 0..NumDev}

\* _parse_int: int(float(val)), 0 when val is no number
ParseInt(val) == IF val.k = "num" THEN val.n ELSE 0

RECURSIVE SmiSnapshots(_, _)
SmiSnapshots(lines, i) ==
    IF i > Len(lines) THEN << >>
    ELSE (IF Len(lines[i]) >= 5
          THEN <<Snapshot(i - 1, ParseInt(lines[i][1]), ParseInt(lines[i][2]),
                          ParseInt(lines[i][3]))>>
          ELSE << >>)
         \o SmiSnapshots(lines, i + 1)

\* _get_gpu_stats_smi; "raised" is the FileNotFoundError of a missing binary,
\* which the method does not catch
StatsRaised == [none |-> TRUE, list |-> << >>, raised |-> TRUE]
StatsNone == [none |-> TRUE, list |-> << >>, raised |-> FALSE]
StatsList(l) == [none |-> FALSE, list |-> l, raised |-> FALSE]

GetGpuStatsSmi(available, cli, lines) ==
    IF ~available THEN StatsNone
    ELSE IF cli = "missing" THEN StatsRaised
    ELSE IF cli \in {"nonzero", "timeout"} THEN StatsNone
    ELSE IF SmiSnapshots(lines, 1) = << >> THEN StatsNone
    ELSE StatsList(SmiSnapshots(lines, 1))

\* _get_gpu_stats_nvml; nvml_ok is FALSE when nvmlDeviceGetCount or
\* nvmlDeviceGetHandleByIndex raises
GetGpuStatsNvml(nvml_ok, infos, available, cli, lines) ==
    IF ~nvml_ok THEN GetGpuStatsSmi(available, cli, lines)
    ELSE StatsList([i \in 1..Len(infos) |-> NvmlSnapshot(i - 1, infos[i])])

GetGpuStats(initialized, nvml_ok, infos, available, cli, lines) ==
    IF initialized THEN GetGpuStatsNvml(nvml_ok, infos, available, cli, lines)
    ELSE GetGpuStatsSmi(available, cli, lines)

\* the environment of one get_gpu_stats call
StatsEnvs ==
    [nvml_ok : BOOLEAN,
     infos : UNION {[1..n -> NvmlDeviceInfos] : n \in 0..1},
     cli : CliOutcomes,
     lines : CsvOutputs]

\* an environment the call does not look at is drawn once
StatsEnvsOf(initialized, available) ==
    {e \in StatsEnvs :
        /\ ~initialized => e.nvml_ok /\ e.infos = << >>
        /\ (initialized /\ e.nvml_ok) \/ ~available => e.cli = "ok" /\ e.lines = << >>
        /\ ~e.nvml_ok => e.infos = << >>
        /\ e.cli # "ok" => e.lines = << >>}

(***************************************************************************)
(* SystemMonitorCollector.collect_simple                                   *)
(***************************************************************************)
DictGetOr(v, default) == IF v = NoneVal THEN default ELSE v

CollectSimpleData(gpu) ==
    IF ~gpu.none /\ Len(gpu.list) > 0
    THEN [present |-> TRUE,
          gpu_usage |-> gpu.list[1].gpu_usage,
          vram_used_mb |-> DictGetOr(gpu.list[1].vram_used_mb, 0),
          vram_total_mb |-> DictGetOr(gpu.list[1].vram_total_mb, 0)]
    ELSE [present |-> TRUE, gpu_usage |-> NoneVal, vram_used_mb |-> NoneVal,
          vram_total_mb |-> NoneVal]

(***************************************************************************)
(* One iteration of SystemMonitor._monitor_loop.                           *)
(***************************************************************************)
\* how a get_gpu_processes call of the iteration ends
PollEnds(available) == IF available THEN {"None", "list", "raised"} ELSE {"None"}

\* collect_all, first call: gpu_data = self.gpu_collector.get_gpu_stats()
CollectAllGpuStats ==
    /\ mpc = "collect"
    /\ \E e \in StatsEnvsOf(nvml_initialized, gpu_available) :
          LET gpu == GetGpuStats(nvml_initialized, e.nvml_ok, e.infos, gpu_available,
                                 e.cli, e.lines)
          IN  IF gpu.raised
              THEN /\ mpc' = "failed"
                   /\ UNCHANGED gpu_data
              ELSE /\ mpc' = "collect_procs"
                   /\ gpu_data' = [none |-> gpu.none, list |-> gpu.list]
    /\ UNCHANGED <<startVars, pollVars, auxVars, data, gpu_processes, gpu_stats, stored>>

\* collect_all from get_gpu_processes on, and the simple_data of collect_simple
CollectSimple ==
    /\ mpc = "collect_procs"
    /\ \E poll \in PollEnds(gpu_available) :
          IF poll = "raised"
          THEN /\ mpc' = "failed"
               /\ UNCHANGED data
          ELSE /\ mpc' = "top"
               /\ data' = CollectSimpleData(gpu_data)
    /\ UNCHANGED <<startVars, pollVars, auxVars, gpu_data, gpu_processes, gpu_stats, stored>>

GetTopGpuProcesses ==
    /\ mpc = "top"
    /\ \E poll \in PollEnds(gpu_available) :
          /\ gpu_processes' = poll
          /\ mpc' = IF poll = "raised" THEN "failed" ELSE "stats"
    /\ UNCHANGED <<startVars, pollVars, auxVars, gpu_data, data, gpu_stats, stored>>

LoopGetGpuStats ==
    /\ mpc = "stats"
    /\ \E e \in StatsEnvsOf(nvml_initialized, gpu_available) :
          LET gpu == GetGpuStats(nvml_initialized, e.nvml_ok, e.infos, gpu_available,
                                 e.cli, e.lines)
          IN  IF gpu.raised
              THEN /\ mpc' = "failed"
                   /\ UNCHANGED gpu_stats
              ELSE /\ mpc' = "store"
                   /\ gpu_stats' = [none |-> gpu.none, list |-> gpu.list]
    /\ UNCHANGED <<startVars, pollVars, auxVars, gpu_data, data, gpu_processes, stored>>

\* `if data.get(key) is None: data[key] = 0`
NoneToZero(v) == IF v = NoneVal THEN 0 ELSE v

\* cursor.execute and conn.commit of one insert: the transaction commits, or
\* an exception inside `with self._get_connection() as conn` rolls it back
\* and the insert returns False
InsertOutcomes == {"committed", "rolled_back"}

\* the None replacement and database.insert_metrics(data)
InsertMetrics ==
    /\ mpc = "store"
    /\ data' = [present |-> TRUE,
                gpu_usage |-> NoneToZero(data.gpu_usage),
                vram_used_mb |-> NoneToZero(data.vram_used_mb),
                vram_total_mb |-> NoneToZero(data.vram_total_mb)]
    /\ \E outcome \in InsertOutcomes :
          stored' = [stored EXCEPT !.metrics = IF outcome = "committed" THEN data' ELSE NoData]
    /\ mpc' = "store_gpu"
    /\ UNCHANGED <<startVars, pollVars, auxVars, gpu_data, gpu_processes, gpu_stats>>

\* `if gpu_stats and isinstance(gpu_stats, list)`: database.insert_gpu_metrics
InsertGpuMetrics ==
    /\ mpc = "store_gpu"
    /\ stored' = [stored EXCEPT !.gpu_metrics = IF ~gpu_stats.none THEN gpu_stats.list ELSE << >>]
    /\ mpc' = "store_procs"
    /\ UNCHANGED <<startVars, pollVars, auxVars, gpu_data, data, gpu_processes, gpu_stats>>

\* insert_gpu_processes: the rows of the batch are executed one by one in one
\* transaction; fail_at is the row whose execute raises (0: none)
InsertGpuProcessesRows(rows, fail_at) == IF fail_at = 0 THEN rows ELSE 0

\* `if gpu_processes`: database.insert_gpu_processes
InsertGpuProcesses ==
    /\ mpc = "store_procs"
    /\ \E fail_at \in (IF gpu_processes = "list" THEN 0..BatchRows ELSE {0}) :
          stored' = [stored EXCEPT !.gpu_processes =
                        IF gpu_processes = "list"
                        THEN InsertGpuProcessesRows(BatchRows, fail_at) ELSE 0]
    /\ mpc' = "sleep"
    /\ UNCHANGED <<startVars, pollVars, auxVars, gpu_data, data, gpu_processes, gpu_stats>>

\* time.sleep(self.interval), also in the handler of `except Exception`
Sleep ==
    /\ mpc \in {"sleep", "failed"}
    /\ mpc' = "collect"
    /\ gpu_data' = ResultNone
    /\ data' = NoData
    /\ gpu_processes' = "None"
    /\ gpu_stats' = ResultNone
    /\ stored' = NothingStored
    /\ UNCHANGED <<startVars, pollVars, auxVars>>

InitStats ==
    /\ gpu_available \in BOOLEAN
    /\ nvml_initialized \in BOOLEAN
    /\ docker_client = FALSE
    /\ PollIdle
    /\ mpc = "collect"
    /\ gpu_data = ResultNone
    /\ data = NoData
    /\ gpu_processes = "None"
    /\ gpu_stats = ResultNone
    /\ stored = NothingStored
    /\ scan_input = NoScanInput
    /\ scan_output = NotScanned
    /\ ThreadsIdle
    /\ TopIdle

NextStats ==
    \/ CollectAllGpuStats
    \/ CollectSimple
    \/ GetTopGpuProcesses
    \/ LoopGetGpuStats
    \/ InsertMetrics
    \/ InsertGpuMetrics
    \/ InsertGpuProcesses
    \/ Sleep

SpecStats == InitStats /\ [][NextStats]_vars

(***************************************************************************)
(* ProcessHelper.build_pid_namespace_map called on its own, over every     *)
(* /proc the bounds allow.                                                 *)
(***************************************************************************)
ScanInputs ==
    UNION {[host_proc : BOOLEAN, alive : {alive}, ns : NsRecords(alive),
            status : [alive -> StatusReads]] : alive \in SUBSET HostPids}

ScanStartRetaining(previous) ==
    [container_to_host |-> EmptyDict, host_to_container |-> previous]

\* container_to_host = {} and host_to_container = {} at the head of the call
ScanStart(previous) == EmptyMaps

\* the call ends with self.host_to_container = host_to_container, also when
\* the scan was ended by the outer handler
BuildPidNamespaceMapCall ==
    /\ ~scan_output.ran
    /\ LET maps == ScanPidNamespaceMap(scan_input.host_proc, Ascending(scan_input.alive),
                                       scan_input.ns, scan_input.status,
                                       ScanStart(host_to_container))
       IN  /\ scan_output' = [ran |-> TRUE, maps |-> maps, before |-> host_to_container]
           /\ host_to_container' = maps.host_to_container
    /\ UNCHANGED <<hostPids, nspid, nvmlProcs, pc, processes, container_map, pid_namespace_map,
                   gpu_id, all_procs, accounting_enabled, smi_rows, matched_procs, result,
                   aliveAtStart, last_resolve, after_nvml, smi_run, before_kw, faults,
                   docker_up>>
    /\ UNCHANGED <<startVars, statsVars, threadVars, topVars, scan_input>>

\* the next call finds another /proc
ScanAgain ==
    /\ scan_output.ran
    /\ scan_input' \in ScanInputs
    /\ scan_output' = NotScanned
    /\ UNCHANGED <<startVars, pollVars, statsVars, threadVars, topVars>>

InitScan ==
    /\ gpu_available = FALSE
    /\ nvml_initialized = FALSE
    /\ docker_client = FALSE
    /\ PollIdle
    /\ mpc = "off"
    /\ gpu_data = ResultNone
    /\ data = NoData
    /\ gpu_processes = "None"
    /\ gpu_stats = ResultNone
    /\ stored = NothingStored
    /\ scan_input \in ScanInputs
    /\ scan_output = NotScanned
    /\ ThreadsIdle
    /\ TopIdle

NextScan ==
    \/ BuildPidNamespaceMapCall
    \/ ScanAgain

SpecScan == InitScan /\ [][NextScan]_vars

(***************************************************************************)
(* GPUCollector.get_top_gpu_processes called on its own.  An entry is the  *)
(* pair of the pid and the gpu_memory_mb of a result entry; the list of a  *)
(* get_gpu_processes result has one entry per PID and is never empty       *)
(* (an empty map is returned as None).                                     *)
(***************************************************************************)
TopEntries == [pid : 1..MaxEntries, gpu_memory_mb : 0..MaxMemoryMb]

TopLists ==
    {l \in UNION {[1..n -> TopEntries] : n \in 1..MaxEntries} :
        \A i, j \in 1..Len(l) : i # j => l[i].pid # l[j].pid}

TopInputs ==
    [poll : {"None", "raised"}, list : {<< >>}, limit : -1..MaxLimit]
    \cup [poll : {"list"}, list : TopLists, limit : -1..MaxLimit]

SortedProcessesAsGiven(procs) == procs

\* sorted(processes, key=lambda x: x['gpu_memory_mb'], reverse=True): a
\* stable sort, entries of equal memory keep their order
SortedProcesses(procs) ==
    LET rank(i) == Cardinality({j \in 1..Len(procs) :
                                   \/ procs[j].gpu_memory_mb > procs[i].gpu_memory_mb
                                   \/ /\ procs[j].gpu_memory_mb = procs[i].gpu_memory_mb
                                      /\ j < i}) + 1
    IN  [k \in 1..Len(procs) |-> procs[CHOOSE i \in 1..Len(procs) : rank(i) = k]]

\* sorted_processes[:limit]; a negative limit counts from the end
SliceTo(l, limit) ==
    IF limit >= 0
    THEN SubSeq(l, 1, IF limit < Len(l) THEN limit ELSE Len(l))
    ELSE SubSeq(l, 1, IF Len(l) + limit > 0 THEN Len(l) + limit ELSE 0)

GetTopGpuProcessesCall ==
    /\ ~top_output.ran
    /\ top_output' =
          IF top_input.poll = "raised"
          THEN [ran |-> TRUE, ended |-> "raised", list |-> << >>]
          ELSE IF top_input.poll = "None" \/ top_input.list = << >>
          THEN [ran |-> TRUE, ended |-> "None", list |-> << >>]
          ELSE [ran |-> TRUE, ended |-> "list",
                list |-> SliceTo(SortedProcesses(top_input.list), top_input.limit)]
    /\ UNCHANGED <<startVars, pollVars, statsVars, scanVars, threadVars, top_input>>

InitTop ==
    /\ gpu_available = TRUE
    /\ nvml_initialized = FALSE
    /\ docker_client = FALSE
    /\ PollIdle
    /\ mpc = "off"
    /\ gpu_data = ResultNone
    /\ data = NoData
    /\ gpu_processes = "None"
    /\ gpu_stats = ResultNone
    /\ stored = NothingStored
    /\ scan_input = NoScanInput
    /\ scan_output = NotScanned
    /\ ThreadsIdle
    /\ top_input \in TopInputs
    /\ top_output = NotCalled

SpecTop == InitTop /\ [][GetTopGpuProcessesCall]_vars

(***************************************************************************)
(* SystemMonitor.start_monitoring / stop_monitoring and the loop threads.  *)
(* A loop thread is at "check" (`while self.running`), in "pass" (one      *)
(* collect -> store pass), "failed" (in `except Exception`, before its     *)
(* sleep), "sleeping" (time.sleep(self.interval)) or "ended".              *)
(***************************************************************************)
Live(t) == threads[t] # "ended"

StartMonitoring ==
    /\ caller = "idle"
    /\ ~running
    /\ Len(threads) < MaxThreads
    /\ running' = TRUE
    /\ threads' = Append(threads, "check")
    /\ monitor_thread' = Len(threads) + 1
    /\ UNCHANGED <<startVars, pollVars, statsVars, scanVars, topVars, caller>>

\* stop_monitoring up to the join
StopMonitoring ==
    /\ caller = "idle"
    /\ running
    /\ running' = FALSE
    /\ caller' = IF monitor_thread # 0 /\ Live(monitor_thread) THEN "joining" ELSE "idle"
    /\ UNCHANGED <<startVars, pollVars, statsVars, scanVars, topVars, monitor_thread, threads>>

\* monitor_thread.join(timeout=5) returns: the thread has ended, or the five
\* seconds are over while it sleeps or works
JoinReturns ==
    /\ caller = "joining"
    /\ threads[monitor_thread] \in {"ended", "pass", "failed", "sleeping"}
    /\ caller' = "idle"
    /\ UNCHANGED <<startVars, pollVars, statsVars, scanVars, topVars, running,
                   monitor_thread, threads>>

LoopCheckIgnoringRunning(t) ==
    /\ threads[t] = "check"
    /\ threads' = [threads EXCEPT ![t] = "pass"]
    /\ UNCHANGED <<startVars, pollVars, statsVars, scanVars, topVars, running,
                   monitor_thread, caller>>

\* `while self.running`
LoopCheck(t) ==
    /\ threads[t] = "check"
    /\ threads' = [threads EXCEPT ![t] = IF running THEN "pass" ELSE "ended"]
    /\ UNCHANGED <<startVars, pollVars, statsVars, scanVars, topVars, running,
                   monitor_thread, caller>>

\* the body of the loop: it reaches its sleep after the inserts, or a call
\* in it raises and `except Exception` takes over
LoopPass(t) ==
    /\ threads[t] = "pass"
    /\ \E raised \in BOOLEAN :
          threads' = [threads EXCEPT ![t] = IF raised THEN "failed" ELSE "sleeping"]
    /\ UNCHANGED <<startVars, pollVars, statsVars, scanVars, topVars, running,
                   monitor_thread, caller>>

\* the handler prints the error and sleeps
LoopFailed(t) ==
    /\ threads[t] = "failed"
    /\ threads' = [threads EXCEPT ![t] = "sleeping"]
    /\ UNCHANGED <<startVars, pollVars, statsVars, scanVars, topVars, running,
                   monitor_thread, caller>>

LoopWake(t) ==
    /\ threads[t] = "sleeping"
    /\ threads' = [threads EXCEPT ![t] = "check"]
    /\ UNCHANGED <<startVars, pollVars, statsVars, scanVars, topVars, running,
                   monitor_thread, caller>>

InitThreads ==
    /\ gpu_available = FALSE
    /\ nvml_initialized = FALSE
    /\ docker_client = FALSE
    /\ PollIdle
    /\ mpc = "off"
    /\ gpu_data = ResultNone
    /\ data = NoData
    /\ gpu_processes = "None"
    /\ gpu_stats = ResultNone
    /\ stored = NothingStored
    /\ scan_input = NoScanInput
    /\ scan_output = NotScanned
    /\ ThreadsIdle
    /\ TopIdle

NextThreads ==
    \/ StartMonitoring
    \/ StopMonitoring
    \/ JoinReturns
    \/ \E t \in 1..Len(threads) : LoopCheck(t)
    \/ \E t \in 1..Len(threads) : LoopPass(t)
    \/ \E t \in 1..Len(threads) : LoopFailed(t)
    \/ \E t \in 1..Len(threads) : LoopWake(t)

SpecThreads == InitThreads /\ [][NextThreads]_vars

\* a loop thread that has been started goes on running: the calls of a pass
\* return or raise, a sleep ends after the interval
LoopStep(t) ==
    /\ t \in 1..Len(threads)
    /\ LoopCheck(t) \/ LoopPass(t) \/ LoopFailed(t) \/ LoopWake(t)

SpecThreadsFair ==
    InitThreads /\ [][NextThreads]_vars /\ \A t \in 1..MaxThreads : WF_vars(LoopStep(t))

(***************************************************************************)
(* Properties.                                                             *)
(***************************************************************************)
ResultPids == {result.list[i].pid : i \in 1..Len(result.list)}

\* the keys whose entry an action has put into the result map or replaced
Inserted ==
    {processes'[i].key : i \in {j \in 1..Len(processes') :
                                   j > Len(processes) \/ processes'[j] # processes[j]}}

\* C1: the list returned by get_gpu_processes holds no host PID twice, and
\* the 'pid' field of every entry is the key the entry is stored under.
C1_NoDuplicateHostPid ==
    /\ \A i, j \in 1..Len(processes) :
          /\ i # j => processes[i].key # processes[j].key
          /\ processes[i].val.pid = processes[i].key
    /\ pc = "done" /\ ~result.none =>
          /\ Len(result.list) = Len(processes)
          /\ \A i, j \in 1..Len(result.list) :
                /\ i # j => result.list[i].pid # result.list[j].pid
                /\ result.list[i] = processes[i].val

\* two driver records of the same process end in one returned entry
C1_Witness ==
    /\ pc = "done"
    /\ ~result.none
    /\ \E s, t \in DOMAIN nvmlProcs :
          /\ s # t
          /\ nvmlProcs[s].pid = nvmlProcs[t].pid
          /\ nvmlProcs[s].pid \in ResultPids
          /\ after_nvml # EmptyDict

\* C2: an entry enters the result map only for a host PID that exists when
\* the poll checks it, on each of the three paths, and the returned list is
\* the content of that map; a record whose resolved host PID does not exist
\* is discarded.
C2_OnlyExistingPids ==
    [][/\ pc' # "idle" => Inserted \subseteq hostPids'
       /\ pc' = "done" /\ ~result'.none => ResultPids' = KeySet(processes')]_vars

\* a record resolved through the namespace map to a process that has exited
\* is not in the returned list
C2_Witness ==
    /\ pc = "done"
    /\ ~result.none
    /\ last_resolve.tried = <<"direct", "namespace">>
    /\ last_resolve.pid \in aliveAtStart
    /\ last_resolve.pid \notin hostPids
    /\ last_resolve.pid \notin ResultPids

\* C3: when NVML is not initialized and the nvidia-smi invocation of the poll
\* fails (binary missing, timeout or non-zero exit), get_gpu_processes
\* returns an empty list and does not raise, whatever runs on the host.
C3_EmptyWhenBothUnavailable ==
    (/\ pc \in {"done", "raised"}
     /\ ~nvml_initialized
     /\ smi_run \in {"nonzero", "timeout", "missing"})
    => (pc = "done" /\ result.list = << >>)

\* iteration order of the NVML path: devices ascending, compute before graphics
SlotRank(s) == 2 * s[1] + (IF s[2] = "graphics" THEN 1 ELSE 0)

\* the driver records that _resolve_pid maps to host PID p
ResolvesTo(p) ==
    {s \in DOMAIN nvmlProcs :
        ResolvePid(nvmlProcs[s].pid, pid_namespace_map,
                   VramUsedMb(nvmlProcs[s].usedGpuMemory), hostPids, host_to_container,
                   nvml_initialized, nvmlProcs).pid = p}

LastSlotFor(p) == CHOOSE s \in ResolvesTo(p) : \A t \in ResolvesTo(p) : SlotRank(t) <= SlotRank(s)

EntriesOf(p) == {i \in 1..Len(result.list) : result.list[i].pid = p}

C5_NamespaceRoundTrip ==
    \A h \in aliveAtStart :
       (/\ last_resolve.tried # << >>
        /\ ~last_resolve.direct
        /\ nspid[h] = last_resolve.raw)
       => last_resolve.pid = h

\* C6: a raw PID that exists on the host is returned unchanged, with no
\* namespace-map lookup and no accelerator query, also when the same number is
\* a key of the namespace map; the namespace lookup is made only after the
\* direct check failed, the reverse search only after the lookup failed.
C6_FallbackOrder ==
    last_resolve.tried # << >> =>
       /\ last_resolve.tried \in {<<"direct">>, <<"direct", "namespace">>,
                                  <<"direct", "namespace", "reverse">>}
       /\ last_resolve.direct =>
             /\ last_resolve.pid = last_resolve.raw
             /\ last_resolve.tried = <<"direct">>
             /\ last_resolve.queries = 0
       /\ Len(last_resolve.tried) >= 2 => ~last_resolve.direct
       /\ Len(last_resolve.tried) = 2 =>
             /\ DictHas(pid_namespace_map, last_resolve.raw)
             /\ last_resolve.pid = DictGet(pid_namespace_map, last_resolve.raw)
             /\ last_resolve.queries = 0
       /\ Len(last_resolve.tried) = 3 => ~DictHas(pid_namespace_map, last_resolve.raw)

\* the raw PID is a live host process and also the container-relative PID of
\* another one
C6_Witness ==
    /\ last_resolve.direct
    /\ DictHas(pid_namespace_map, last_resolve.raw)
    /\ DictGet(pid_namespace_map, last_resolve.raw) # last_resolve.raw
    /\ DictHas(processes, last_resolve.raw)

\* C7: the keyword supplement leaves every entry of the accounting or the
\* nvidia-smi path as it was, unless the memory it found for that PID is
\* strictly larger than the entry's gpu_memory_mb.
C7_SupplementKeepsEntries ==
    pc \in {"done", "raised"} /\ gpu_available =>
       /\ Len(processes) >= Len(before_kw)
       /\ \A i \in 1..Len(before_kw) :
             /\ processes[i].key = before_kw[i].key
             /\ \/ processes[i].val = before_kw[i].val
                \/ processes[i].val.gpu_memory_mb > before_kw[i].val.gpu_memory_mb

\* a keyword-matched process already had an entry of the accounting path
C7_Witness ==
    /\ pc = "done"
    /\ \E i \in 1..Len(matched_procs) :
          /\ DictHas(before_kw, matched_procs[i])
          /\ DictGet(before_kw, matched_procs[i]).type.named
    /\ Len(processes) > Len(before_kw)

SmiLabels == {"NVIDIA Graphics", "NVIDIA Compute"}

\* the snapshots get_gpu_stats has returned in this iteration
ReturnedSnapshots == SeqSet(gpu_data.list) \cup SeqSet(gpu_stats.list)

\* C8: in every device snapshot returned by get_gpu_stats, from NVML or from
\* the diagnostic CLI, the memory fields are never negative and
\* vram_used_mb <= vram_total_mb, also for CLI rows whose memory columns hold
\* N/A.  The code breaks it: _parse_int turns an N/A memory.total into 0 next
\* to a numeric memory.used.
C8_MemoryFieldsOrdered ==
    \A snap \in ReturnedSnapshots :
        snap.vram_used_mb # NoneVal =>
            /\ snap.vram_used_mb >= 0
            /\ snap.vram_total_mb >= 0
            /\ snap.vram_used_mb <= snap.vram_total_mb

\* C9: what a caller receives tells "GPU unavailable" from "GPU present but
\* nothing detected this poll": get_gpu_processes and get_gpu_stats return
\* None only when the collector found no GPU at start-up, and the record
\* handed to storage does not hold usage 0 for a poll that had no GPU data.
\* The code breaks it: both methods return None on a machine with a GPU, and
\* the loop replaces the None fields by 0 before insert_metrics.
GpuUnavailable == ~gpu_available

C9_UnavailableDistinctFromZero ==
    /\ mpc = "store" /\ gpu_stats.none => GpuUnavailable
    /\ mpc = "store" /\ gpu_processes = "None" => GpuUnavailable
    /\ stored.metrics.present /\ gpu_data.none => stored.metrics.gpu_usage # 0

PidColumn(parts) == parts[4].n
MemoryColumn(parts) == IF parts[7].k = "mib" THEN parts[7].n ELSE 0

\* C11: with NVML not initialized, a row of the nvidia-smi process table whose
\* PID column names an existing host process not yet in the result map, and
\* whose process can be read, yields the entry keyed by that PID, with the
\* row's MiB figure, utilization 0 and the Compute tag for type C.  The code
\* breaks it: the first all-digit part of the row is the GPU index, and that
\* is what the parser takes for the PID.
C11_RowYieldsPidColumnEntry ==
    [][(/\ pc = "smi_row"
        /\ ~nvml_initialized
        /\ faults' = faults
        /\ PidColumn(Head(smi_rows)) \in hostPids
        /\ ~DictHas(processes, PidColumn(Head(smi_rows))))
       => LET parts == Head(smi_rows)
              p == PidColumn(parts)
          IN  /\ DictHas(processes', p)
              /\ Inserted = {p}
              /\ DictGet(processes', p).pid = p
              /\ DictGet(processes', p).gpu_memory_mb = MemoryColumn(parts)
              /\ DictGet(processes', p).gpu_utilization = 0
              /\ parts[5].w = "C" => DictGet(processes', p).type = SmiType("C")]_vars


\* what the individual accelerator queries of the supplement find for host
\* process p: the literal PID first, then its namespace-translated counterpart
KeywordFound(p) == KeywordInfo(p, "disabled")

\* C12: every keyword-matching host process that had no entry when the
\* supplement began gets one entry; its memory is that of the accelerator
\* query on its PID or on the translated PID, with a tag naming the device,
\* and without such a confirmation the entry has memory 0, utilization 0 and
\* the tag 'Potential GPU (Keyword)'.  The code breaks it: AccessDenied on a
\* matched process is not caught, the supplement ends there and the matches
\* not yet visited get no entry.
C12_KeywordMatchesGetEntries ==
    pc \in {"done", "raised"} =>
       \A i \in 1..Len(matched_procs) :
          LET p == matched_procs[i]
              info == KeywordFound(p)
          IN  p \in hostPids /\ ~DictHas(before_kw, p) =>
                 /\ DictHas(processes, p)
                 /\ Cardinality({j \in 1..Len(processes) : processes[j].key = p}) = 1
                 /\ DictGet(processes, p).pid = p
                 /\ IF ~info.none /\ info.found
                    THEN /\ DictGet(processes, p).gpu_memory_mb = info.vram_used_mb
                         /\ DictGet(processes, p).type # PotentialType
                    ELSE /\ DictGet(processes, p).gpu_memory_mb = 0
                         /\ DictGet(processes, p).gpu_utilization = 0
                         /\ DictGet(processes, p).type = PotentialType


\* the host processes that run in a container of the runtime
ContainerProcesses == {h \in aliveAtStart : nspid[h] # 0}

\* C13: when the container runtime does not answer, the poll's index is
\* empty and every entry carries container 'Host' and the host source; in
\* general an entry's container is the index's name for its PID when the PID
\* is in the index, and 'Host' otherwise.
C13_ContainerOrHost ==
    /\ gpu_available /\ pc # "idle" /\ ~docker_up => container_map = EmptyDict
    /\ \A i \in 1..Len(processes) :
          LET p == processes[i].key
              e == processes[i].val
              owned == \E j \in 1..Len(container_map) : container_map[j].key = p
          IN  /\ ~docker_up => e.container = "Host" /\ e.container_source = <<"host-zh">>
              /\ owned => e.container = ContainerInfo.name
              /\ ~owned => e.container = "Host"
    /\ pc = "done" /\ ~result.none =>
          \A i \in 1..Len(result.list) :
             result.list[i].container \in {"Host", ContainerInfo.name}

\* a client exists, the runtime does not answer in this poll, and the poll
\* returns an entry of a process that runs in a container
C13_Witness ==
    /\ docker_client
    /\ ~docker_up
    /\ pc = "done"
    /\ ~result.none
    /\ \E i \in 1..Len(result.list) :
          /\ result.list[i].pid \in ContainerProcesses
          /\ result.list[i].container = "Host"

\* C14: a poll during which the container runtime answers builds an index
\* holding the runtime's container processes, also when the runtime did not
\* answer before.  The code breaks it: the client is created once, in
\* DockerHelper.__init__, and a failed start-up is never retried.
C14_ReconnectsAtNextPoll ==
    gpu_available /\ pc # "idle" /\ docker_up =>
       \A h \in ContainerProcesses : DictHas(container_map, h)


\* C15: a failure reading one process's namespace record skips that process
\* only: every other scanned process whose record was read and has two
\* entries is in the maps the build leaves.  The code breaks it: in the scan
\* of psutil.process_iter an OSError that is neither FileNotFoundError nor
\* PermissionError ends the whole scan.
C15_ReadFailureSkipsOneProcess ==
    scan_output.ran =>
       \A h \in scan_input.alive :
          scan_input.status[h] = "ok" /\ scan_input.ns[h] # 0 =>
             /\ DictHas(scan_output.maps.host_to_container, h)
             /\ DictHas(scan_output.maps.container_to_host, scan_input.ns[h])


\* C16: the get_gpu_stats call of the loop, which ends in _get_gpu_stats_smi
\* when NVML is not initialized or fails, returns and does not raise when
\* the nvidia-smi invocation exits non-zero, times out or finds no binary.
\* The code breaks it: _get_gpu_stats_smi does not catch the
\* FileNotFoundError of a missing binary.
C16_StatsReaderNeverRaises ==
    [][mpc = "stats" => mpc' # "failed"]_vars


\* C17: a process that exits or may not be inspected while the poll reads it
\* costs the poll that one record only: get_gpu_processes does not raise,
\* and the entries of the earlier paths and of every keyword match still
\* alive are returned.  The code breaks it: AccessDenied in the keyword
\* supplement is not caught and ends the poll.
C17_VanishedProcessDropsOneRecord ==
    /\ pc # "raised"
    /\ pc = "done" /\ gpu_available =>
          /\ \A i \in 1..Len(before_kw) : before_kw[i].key \in ResultPids
          /\ \A i \in 1..Len(matched_procs) :
                matched_procs[i] \in hostPids => matched_procs[i] \in ResultPids


\* C18: a driver query that fails in the middle of the NVML path degrades
\* that data point only, and the records of every other device are still
\* collected: the device loop ends only when every other device holding
\* records has been visited.  The code breaks it: nvmlDeviceGetHandleByIndex
\* is guarded by the outer handler alone, so its failure ends the loop before
\* the devices behind it.
C18_DeviceFailureKeepsOtherDevices ==
    [][pc = "nvml_dev" /\ pc' \notin {"nvml_dev", "nvml_proc"}
       => \A slot \in DOMAIN nvmlProcs : slot[1] # gpu_id => slot[1] < gpu_id]_vars


\* the three outputs of the iteration as the database holds them
MetricsStored == stored.metrics.present
SnapshotsStored == ~gpu_stats.none /\ gpu_stats.list # << >> => stored.gpu_metrics = gpu_stats.list
SnapshotsAbsent == stored.gpu_metrics = << >>
ProcessesStored == gpu_processes = "list" => stored.gpu_processes = BatchRows
ProcessesAbsent == stored.gpu_processes = 0

\* C19: when an iteration of the loop has finished its writes, its metrics
\* record, device snapshots and process rows are in the database all
\* together or not at all, and of the process batch every row or none.  The
\* code breaks it: the three inserts are separate transactions, and a failed
\* insert_metrics or insert_gpu_processes returns False while the others stay.
C19_CycleStoredAllOrNone ==
    /\ stored.gpu_processes \in {0, BatchRows}
    /\ mpc = "sleep" =>
          \/ MetricsStored /\ SnapshotsStored /\ ProcessesStored
          \/ ~MetricsStored /\ SnapshotsAbsent /\ ProcessesAbsent


\* C20: after any sequence of start_monitoring and stop_monitoring calls at
\* most one loop thread is alive, so no two passes overlap.  The code breaks
\* it: stop_monitoring gives up the join after five seconds, the next
\* start_monitoring sets running again, and the earlier thread goes on
\* cycling next to the new one.
C20_AtMostOneLoopThread ==
    /\ Cardinality({t \in 1..Len(threads) : Live(t)}) <= 1
    /\ Cardinality({t \in 1..Len(threads) : threads[t] = "pass"}) <= 1


\* the simple_data the claim describes for the value get_gpu_stats returned
NoDevice == gpu_data.none \/ gpu_data.list = << >>

\* C21: once get_gpu_stats has returned inside collect_all, collect_simple
\* returns: with no device (None or an empty list) its GPU fields are all
\* None, otherwise they are those of device 0, with 0 for a field the
\* snapshot lacks.  The code breaks it: the get_gpu_processes call of
\* collect_all can raise, and collect_simple raises with it.
C21_CollectSimpleToleratesAbsence ==
    [][mpc = "collect_procs" =>
          /\ mpc' = "top"
          /\ data'.present
          /\ NoDevice =>
                /\ data'.gpu_usage = NoneVal
                /\ data'.vram_used_mb = NoneVal
                /\ data'.vram_total_mb = NoneVal
          /\ ~NoDevice =>
                /\ data'.gpu_usage = gpu_data.list[1].gpu_usage
                /\ data'.vram_used_mb = (IF gpu_data.list[1].vram_used_mb = NoneVal THEN 0
                                         ELSE gpu_data.list[1].vram_used_mb)
                /\ data'.vram_total_mb = (IF gpu_data.list[1].vram_total_mb = NoneVal THEN 0
                                          ELSE gpu_data.list[1].vram_total_mb)]_vars

\* the latest _resolve_pid call returned a host PID that is neither the raw
\* PID nor the entry of the namespace map for it
BySearch ==
    /\ last_resolve.pid # 0
    /\ last_resolve.pid # last_resolve.raw
    /\ ~(/\ DictHas(pid_namespace_map, last_resolve.raw)
         /\ DictGet(pid_namespace_map, last_resolve.raw) = last_resolve.pid)

\* C22: a host PID returned by a search strategy of _resolve_pid (neither the
\* raw PID nor namespace_map[raw]) is one whose own accelerator query is
\* found and reports a memory within the tolerance (1 MB) of the record's
\* declared memory; the only search strategy of _resolve_pid is the verified
\* reverse search.
C22_SearchHitMatchesMemory ==
    BySearch =>
       LET verification == GetPidGpuInfo(last_resolve.pid, nvml_initialized, nvmlProcs,
                                         "disabled")
       IN  /\ last_resolve.tried = <<"direct", "namespace", "reverse">>
           /\ DictHas(host_to_container, last_resolve.pid)
           /\ ~verification.none
           /\ verification.found
           /\ Abs(verification.vram_used_mb - last_resolve.vram_used_mb) <= ReverseTolerance

C22_Witness ==
    /\ BySearch
    /\ last_resolve.vram_used_mb > 0
    /\ DictHas(processes, last_resolve.pid)
    /\ DictGet(processes, last_resolve.pid).gpu_memory_mb = last_resolve.vram_used_mb

\* strategy 4b of the single-file collector: the keyword-matched processes
\* whose own accelerator query is found with a memory within 2 MB
KeywordGuidedHits(matched, vram_used_mb) ==
    {i \in 1..Len(matched) :
        LET verification == GetPidGpuInfo(matched[i], nvml_initialized, nvmlProcs, "disabled")
        IN  /\ ~verification.none
            /\ verification.found
            /\ Abs(verification.vram_used_mb - vram_used_mb) <= KeywordTolerance}

\* the three strategies of the latest _resolve_pid call all failed
ThreeFailed ==
    /\ last_resolve.tried = <<"direct", "namespace", "reverse">>
    /\ VerifiedCandidates(DictKeys(host_to_container), last_resolve.vram_used_mb,
                          nvml_initialized, nvmlProcs, ReverseTolerance) = {}

\* C23: when direct hit, namespace translation and verified reverse search
\* fail and the declared memory is greater than 0, resolution returns the
\* first keyword-matched host process whose own accelerator query matches
\* the declared memory within tolerance; with a declared memory of 0, or
\* without such a process, resolution fails.
C23_KeywordGuidedFourthStrategy ==
    ThreeFailed =>
       LET hits == KeywordGuidedHits(matched_procs, last_resolve.vram_used_mb)
       IN  IF last_resolve.vram_used_mb > 0 /\ hits # {}
           THEN last_resolve.pid = matched_procs[MinOf(hits)]
           ELSE last_resolve.pid = 0

C25_MapsAreMutualInverses ==
    scan_output.ran =>
       \A c \in PidNums, h \in HostPids :
          (/\ DictHas(scan_output.maps.container_to_host, c)
           /\ DictGet(scan_output.maps.container_to_host, c) = h)
          <=> (/\ DictHas(scan_output.maps.host_to_container, h)
               /\ DictGet(scan_output.maps.host_to_container, h) = c)

\* the pairs (host PID, container PID) that the scan of the current /proc read
ScannedPairs ==
    {<<h, scan_input.ns[h]>> : h \in {a \in scan_input.alive :
                                         scan_input.status[a] = "ok" /\ scan_input.ns[a] # 0}}

\* C26: after a build_pid_namespace_map call both directions of the map,
\* the returned one and the host_to_container attribute that _resolve_pid
\* reads, hold only pairs read by the scan of that call, also when reads of
\* the scan fail or the scan is ended part-way; nothing an earlier call
\* left in the attribute remains.
C26_MapsRebuiltFromThisScan ==
    scan_output.ran =>
       /\ host_to_container = scan_output.maps.host_to_container
       /\ \A i \in 1..Len(host_to_container) :
             <<host_to_container[i].key, host_to_container[i].val>> \in ScannedPairs
       /\ \A i \in 1..Len(scan_output.maps.container_to_host) :
             <<scan_output.maps.container_to_host[i].val,
               scan_output.maps.container_to_host[i].key>> \in ScannedPairs

\* the earlier call left an entry for a host process that the scan of this
\* call, ended part-way by an OSError, did not read
C26_Witness ==
    /\ scan_output.ran
    /\ ~scan_input.host_proc
    /\ \E h \in scan_input.alive : scan_input.status[h] = "OSError"
    /\ host_to_container # EmptyDict
    /\ \E h \in KeySet(scan_output.before) : ~DictHas(host_to_container, h)

\* C27: in the accounting path the utilization of an entry is 0 when the
\* accounting mode of the device is disabled or unreadable, when the
\* accounting-stats query raises, and when the stats say the process is not
\* running; it is non-zero only with accounting enabled and stats of a
\* running process; none of these failures drops the record: a record that
\* is resolved to a live process in a poll without psutil failure has an
\* entry, and no entry of any path has a utilization without NVML.
C27_UtilizationQueriedDefensively ==
    /\ last_resolve.inserted =>
          /\ DictHas(processes, last_resolve.pid)
          /\ ~last_resolve.accounting_enabled
                => DictGet(processes, last_resolve.pid).gpu_utilization = 0
          /\ last_resolve.acc \in {"stats_error", "not_running", "not_asked"}
                => DictGet(processes, last_resolve.pid).gpu_utilization = 0
          /\ DictGet(processes, last_resolve.pid).gpu_utilization # 0
                => last_resolve.accounting_enabled /\ last_resolve.acc = "running"
    /\ (last_resolve.pid # 0 /\ last_resolve.pid \in hostPids /\ faults = 0)
          => last_resolve.inserted
    /\ \A i \in 1..Len(processes) :
          processes[i].val.gpu_utilization # 0 => nvml_initialized

\* a record whose accounting-stats query raised is in the result with 0
C27_Witness ==
    /\ last_resolve.inserted
    /\ last_resolve.accounting_enabled
    /\ last_resolve.acc = "stats_error"
    /\ DictHas(processes, last_resolve.pid)
    /\ DictGet(processes, last_resolve.pid).gpu_utilization = 0
    /\ DictGet(processes, last_resolve.pid).gpu_memory_mb > 0

\* the entries of the input that the call left out
LeftOut == {e \in SeqSet(top_input.list) : e \notin SeqSet(top_output.list)}

\* the returned list holds entries of the one result, none twice, in order
\* of non-increasing gpu_memory_mb, and no entry left out has more memory
\* than a returned one
TopOfOneResult ==
    /\ \A i \in 1..Len(top_output.list) : top_output.list[i] \in SeqSet(top_input.list)
    /\ \A i, j \in 1..Len(top_output.list) :
          i # j => top_output.list[i].pid # top_output.list[j].pid
    /\ \A i, j \in 1..Len(top_output.list) :
          i < j => top_output.list[i].gpu_memory_mb >= top_output.list[j].gpu_memory_mb
    /\ \A e \in LeftOut : \A i \in 1..Len(top_output.list) :
          e.gpu_memory_mb <= top_output.list[i].gpu_memory_mb

\* C28 (as stated): the list returned by get_top_gpu_processes(limit) has
\* min(limit, number of entries) elements of one get_gpu_processes result,
\* ordered by non-increasing gpu_memory_mb, no entry left out having more
\* memory than a returned one; None when get_gpu_processes yields nothing.
C28_TopHasMinLimitEntries ==
    top_output.ran =>
       /\ top_input.poll = "None" => top_output.ended = "None"
       /\ top_input.poll = "list" =>
             /\ top_output.ended = "list"
             /\ Len(top_output.list) = (IF top_input.limit < Len(top_input.list)
                                        THEN top_input.limit ELSE Len(top_input.list))
             /\ TopOfOneResult

\* C28 (as it holds): for a limit of 0 or more the returned list has
\* min(limit, number of entries) elements; for a negative limit it has the
\* number of entries plus the limit, at least 0; in both cases it holds
\* entries of one get_gpu_processes result in order of non-increasing
\* gpu_memory_mb and no entry left out has more memory than a returned
\* one.  The call returns None when get_gpu_processes returns None and
\* raises when get_gpu_processes raises.
C28_TopEntries ==
    top_output.ran =>
       /\ top_input.poll = "None" => top_output.ended = "None"
       /\ top_input.poll = "raised" => top_output.ended = "raised"
       /\ top_input.poll = "list" =>
             /\ top_output.ended = "list"
             /\ top_input.limit >= 0 =>
                   Len(top_output.list) = (IF top_input.limit < Len(top_input.list)
                                           THEN top_input.limit ELSE Len(top_input.list))
             /\ top_input.limit < 0 =>
                   Len(top_output.list) = (IF Len(top_input.list) + top_input.limit > 0
                                           THEN Len(top_input.list) + top_input.limit ELSE 0)
             /\ TopOfOneResult

\* a call that leaves out the entry listed first, of least memory
C28_Witness ==
    /\ top_output.ran
    /\ top_input.poll = "list"
    /\ top_input.limit = 2
    /\ Len(top_input.list) = 3
    /\ Len(top_output.list) = 2
    /\ top_input.list[1] \in LeftOut
    /\ top_output.list[1] = top_input.list[3]

\* C29: once running is False and stays so (stop_monitoring was called and
\* no start_monitoring follows) every loop thread ends; a thread begins a
\* pass, the only place of the inserts, only while running is True, so after
\* the stop it finishes at most the pass in progress; and a thread ends only
\* at `while self.running` with running False: a pass that raised goes on
\* to the sleep of the handler.
C29_LoopEndsAfterStop ==
    /\ [][\A t \in 1..Len(threads) :
            /\ (threads[t] = "check" /\ threads'[t] = "pass") => running
            /\ (threads[t] # "ended" /\ threads'[t] = "ended")
                  => (threads[t] = "check" /\ ~running)
            /\ threads[t] = "failed" => threads'[t] \in {"failed", "sleeping"}]_vars
    /\ (~running) ~> (running \/ \A t \in 1..Len(threads) : threads[t] = "ended")

\* stopped, with every loop thread ever started ended, two of them
C29_Witness ==
    /\ ~running
    /\ caller = "idle"
    /\ Len(threads) >= 2
    /\ \A t \in 1..Len(threads) : threads[t] = "ended"

\* the raw PIDs of the driver's process lists in this poll
RawPids == {nvmlProcs[s].pid : s \in DOMAIN nvmlProcs}

\* C30: a host PID returned by the verified reverse search is a raw PID of
\* the driver's process lists of the poll, so the strategy brings no host PID
\* into the result that the driver does not list; when the poll meets no
\* failure that host PID is not the raw PID of the record being resolved,
\* and its own record and the record resolved to it share one entry of the
\* accounting path.
C30_ReverseHitIsRawPid ==
    (last_resolve.tried = <<"direct", "namespace", "reverse">> /\ last_resolve.pid # 0) =>
       /\ last_resolve.pid \in RawPids
       /\ DictHas(host_to_container, last_resolve.pid)
       /\ faults = 0 => last_resolve.pid # last_resolve.raw
       /\ (pc = "done" /\ faults = 0) =>
             /\ Cardinality(ResolvesTo(last_resolve.pid)) >= 2
             /\ \E s \in ResolvesTo(last_resolve.pid) : nvmlProcs[s].pid = last_resolve.pid
             /\ Cardinality({i \in 1..Len(after_nvml) :
                               after_nvml[i].key = last_resolve.pid}) = 1

\* a poll without failure in which the reverse search resolved a record to
\* the host PID of another record listed before it
C30_Witness ==
    /\ pc = "done"
    /\ faults = 0
    /\ last_resolve.tried = <<"direct", "namespace", "reverse">>
    /\ last_resolve.pid # 0
    /\ last_resolve.inserted
    /\ Len(after_nvml) = 1
    /\ Cardinality(DOMAIN nvmlProcs) = 2

====
